---- MODULE Spec2Model ----
(***************************************************************************)
(* Library-loan tracker (src/app.py): a Flask application over two         *)
(* SQLAlchemy tables, user and book, with Flask-Login sessions.            *)
(*                                                                         *)
(* users, books  the two tables, as functions from the primary keys of     *)
(*               the existing rows to the rows                             *)
(* sess          per browser session, the '_user_id' entry that            *)
(*               login_user writes and logout_user removes                 *)
(* inflight      per browser session, the request that has run its         *)
(*               queries and has not committed yet (threaded server), or   *)
(*               the record of a request of the session that was answered  *)
(* last          the outcome of the last completed request                 *)
(***************************************************************************)
EXTENDS Integers, FiniteSets, Sequences, TLC

VARIABLES users, books, sess, inflight, last

vars == <<users, books, sess, inflight, last>>

stores == <<users, books>>

\* ---------------------------------------------------------------- bounds
MaxUsers == 2
MaxBooks == 2

\* ---------------------------------------------------------------- inputs
Sessions == {"s1", "s2"}
Usernames == {"alice", "bob"}
Passwords == {"pw1", "pw2"}
\* the username and password a registration form is filled in with
Credentials == {<<"alice", "pw1">>, <<"bob", "pw2">>}
Titles == {"Dune"}
Authors == {"Herbert"}
PublishDates == {"1965"}

UserIds == 1..MaxUsers
BookIds == 1..MaxBooks

\* SQL NULL in an Integer column; no row id is 0
NULL == 0
\* the session holds no '_user_id'
None == "None"

\* ---------------------------------------------------------------- outcomes
Ok == "Ok"
Unauthenticated == "Unauthenticated"
Forbidden == "Forbidden"
PasswordMismatch == "PasswordMismatch"
InvalidCredentials == "InvalidCredentials"
AlreadyBorrowedOrMissing == "AlreadyBorrowedOrMissing"
ReturnDenied == "ReturnDenied"
NotFound == "NotFound"
\* an exception that leaves the view function: HTTP 500
Fault == "Fault"

\* ---------------------------------------------------------------- helpers
Max(S) == CHOOSE x \in S : \A y \in S : y <= x

\* INTEGER PRIMARY KEY without AUTOINCREMENT: one more than the largest
\* row id in the table, 1 in an empty table
NextRowId(rows) == IF DOMAIN rows = {} THEN 1 ELSE Max(DOMAIN rows) + 1

Insert(rows, row) == [i \in DOMAIN rows \cup {NextRowId(rows)} |->
                        IF i \in DOMAIN rows THEN rows[i] ELSE row]

Delete(rows, id) == [i \in DOMAIN rows \ {id} |-> rows[i]]

generate_password_hash(password) == <<"pbkdf2", password>>

\* faulty variant: any password is accepted
check_password_hash_any(pwhash, password) == TRUE

check_password_hash(pwhash, password) == pwhash = <<"pbkdf2", password>>

\* str(id) of every row id
Str == [i \in UserIds |-> ToString(i)]

\* UserMixin.get_id: str(self.id)
get_id(id) == Str[id]

\* load_user: User.query.get(int(user_id)), NULL when there is no such row
load_user(user_id) ==
    IF \E i \in DOMAIN users : Str[i] = user_id
    THEN CHOOSE i \in DOMAIN users : Str[i] = user_id
    ELSE NULL

\* flask_login current_user: the id of the user row of the session, NULL
\* for the anonymous user
current_user(s) == IF sess[s] = None THEN NULL ELSE load_user(sess[s])

\* @login_required
login_required(s) == current_user(s) # NULL

\* User.query.filter_by(username=username).first()
find_by_username(username) ==
    IF \E i \in DOMAIN users : users[i].username = username
    THEN CHOOSE i \in DOMAIN users : users[i].username = username
    ELSE NULL

\* faulty variant: the admin guard lets every logged-in user through
is_admin_everyone(uid) == TRUE

\* the admin guard at the head of add_book, delete_book, manage_users
\* and delete_user
is_admin(uid) == users[uid].is_admin

\* What a view function does to the state and answers: the tables and the
\* sessions after it, and how the request ended (the message it flashes)
Effect(us, bks, ss, result) ==
    [users |-> us, books |-> bks, sess |-> ss, result |-> result]

\* nothing is written
Refuse(result) == Effect(users, books, sess, result)

Apply(e) ==
    /\ users' = e.users
    /\ books' = e.books
    /\ sess' = e.sess
    /\ last' = e.result

Idle == [pc |-> "idle"]

\* session s sends a request: it has none waiting to commit, and the record of
\* its previous request is dropped
Request(s) ==
    /\ inflight[s].pc # "commit"
    /\ inflight' = [inflight EXCEPT ![s] = Idle]

\* ---------------------------------------------------------------- initial state
Init ==
    /\ users = <<>>
    /\ books = <<>>
    /\ sess = [s \in Sessions |-> None]
    /\ inflight = [s \in Sessions |-> Idle]
    /\ last = "none"

\* ---------------------------------------------------------------- register
NewUser(username, password, admin) ==
    [username |-> username,
     password_hash |-> generate_password_hash(password),
     is_admin |-> admin]

\* faulty variant: the username column is not declared unique
UniqueUsername_undeclared(username) == TRUE

\* the UNIQUE constraint on user.username, checked by the INSERT
UniqueUsername(username) == \A i \in DOMAIN users : users[i].username # username

\* faulty variant: confirm_password is not compared
do_register_unconfirmed(username, password, confirm_password, admin) ==
    IF ~UniqueUsername(username)
    THEN Refuse(Fault)
    ELSE Effect(Insert(users, NewUser(username, password, admin)), books, sess, Ok)

\* faulty variant: a taken username has its row overwritten
do_register_upsert(username, password, confirm_password, admin) ==
    IF password # confirm_password
    THEN Refuse(PasswordMismatch)
    ELSE IF ~UniqueUsername(username)
    THEN Effect([i \in DOMAIN users |->
                    IF users[i].username = username
                    THEN NewUser(username, password, admin)
                    ELSE users[i]],
                books, sess, Ok)
    ELSE Effect(Insert(users, NewUser(username, password, admin)), books, sess, Ok)

do_register(username, password, confirm_password, admin) ==
    IF password # confirm_password
    THEN Refuse(PasswordMismatch)
    ELSE IF ~UniqueUsername(username)
    THEN \* IntegrityError out of db.session.commit(), not caught
         Refuse(Fault)
    ELSE Effect(Insert(users, NewUser(username, password, admin)), books, sess, Ok)

register(username, password, confirm_password, admin) ==
    /\ UNCHANGED inflight
    /\ LET e == do_register(username, password, confirm_password, admin) IN
       /\ DOMAIN e.users \subseteq UserIds
       /\ Apply(e)

\* ---------------------------------------------------------------- login / logout
do_login(s, username, password) ==
    LET user == find_by_username(username) IN
    IF user # NULL /\ check_password_hash(users[user].password_hash, password)
    THEN Effect(users, books, [sess EXCEPT ![s] = get_id(user)], Ok)
    ELSE Refuse(InvalidCredentials)

login(s, username, password) ==
    /\ Request(s)
    /\ Apply(do_login(s, username, password))

do_logout(s) ==
    IF ~login_required(s)
    THEN Refuse(Unauthenticated)
    ELSE Effect(users, books, [sess EXCEPT ![s] = None], Ok)

logout(s) ==
    /\ Request(s)
    /\ Apply(do_logout(s))

\* ---------------------------------------------------------------- read-only pages
\* faulty variant: the view lacks @login_required
do_index_public(s) == Refuse(Ok)

do_index(s) ==
    IF ~login_required(s) THEN Refuse(Unauthenticated) ELSE Refuse(Ok)

index(s) ==
    /\ Request(s)
    /\ Apply(do_index(s))

\* Book.query.filter_by(borrowed_by=current_user.id).all()
borrowed_books(uid) == {b \in DOMAIN books : books[b].borrowed_by = uid}

do_user_page(s) ==
    IF ~login_required(s) THEN Refuse(Unauthenticated) ELSE Refuse(Ok)

user_page(s) ==
    /\ Request(s)
    /\ Apply(do_user_page(s))

do_manage_users(s) ==
    IF ~login_required(s) THEN Refuse(Unauthenticated)
    ELSE IF ~is_admin(current_user(s)) THEN Refuse(Forbidden)
    ELSE Refuse(Ok)

manage_users(s) ==
    /\ Request(s)
    /\ Apply(do_manage_users(s))

\* ---------------------------------------------------------------- borrow / return
\* faulty variant: if book
BorrowCheck_exists(bks, book_id) == book_id \in DOMAIN bks

\* if book and not book.is_borrowed
BorrowCheck(bks, book_id) == book_id \in DOMAIN bks /\ ~bks[book_id].is_borrowed

\* faulty variant: book.borrowed_by is not set
BorrowWrite_flag_only(bks, book_id, uid) ==
    [bks EXCEPT ![book_id].is_borrowed = TRUE]

BorrowWrite(bks, book_id, uid) ==
    [bks EXCEPT ![book_id].is_borrowed = TRUE, ![book_id].borrowed_by = uid]

do_borrow_book(s, book_id) ==
    IF ~login_required(s)
    THEN Refuse(Unauthenticated)
    ELSE IF BorrowCheck(books, book_id)
    THEN Effect(users, BorrowWrite(books, book_id, current_user(s)), sess, Ok)
    ELSE Refuse(AlreadyBorrowedOrMissing)

borrow_book(s, book_id) ==
    /\ Request(s)
    /\ Apply(do_borrow_book(s, book_id))

\* faulty variant: if book and book.is_borrowed
ReturnCheck_borrowed(bks, book_id, uid) ==
    book_id \in DOMAIN bks /\ bks[book_id].is_borrowed

\* if book and book.borrowed_by == current_user.id
ReturnCheck(bks, book_id, uid) ==
    book_id \in DOMAIN bks /\ bks[book_id].borrowed_by = uid

\* faulty variant: book.borrowed_by is not reset
ReturnWrite_flag_only(bks, book_id) ==
    [bks EXCEPT ![book_id].is_borrowed = FALSE]

ReturnWrite(bks, book_id) ==
    [bks EXCEPT ![book_id].is_borrowed = FALSE, ![book_id].borrowed_by = NULL]

do_return_book(s, book_id) ==
    IF ~login_required(s)
    THEN Refuse(Unauthenticated)
    ELSE IF ReturnCheck(books, book_id, current_user(s))
    THEN Effect(users, ReturnWrite(books, book_id), sess, Ok)
    ELSE Refuse(ReturnDenied)

return_book(s, book_id) ==
    /\ Request(s)
    /\ Apply(do_return_book(s, book_id))

\* ---------------------------------------------------------------- admin: books
NewBook(title, author, publish_date) ==
    [title |-> title, author |-> author, publish_date |-> publish_date,
     is_borrowed |-> FALSE, borrowed_by |-> NULL]

do_add_book(s, title, author, publish_date) ==
    IF ~login_required(s)
    THEN Refuse(Unauthenticated)
    ELSE IF ~is_admin(current_user(s))
    THEN Refuse(Forbidden)
    ELSE Effect(users, Insert(books, NewBook(title, author, publish_date)), sess, Ok)

add_book(s, title, author, publish_date) ==
    /\ Request(s)
    /\ LET e == do_add_book(s, title, author, publish_date) IN
       /\ DOMAIN e.books \subseteq BookIds
       /\ Apply(e)

\* faulty variant: a book on loan is not deleted
do_delete_book_available(s, book_id) ==
    IF ~login_required(s)
    THEN Refuse(Unauthenticated)
    ELSE IF ~is_admin(current_user(s))
    THEN Refuse(Forbidden)
    ELSE IF book_id \in DOMAIN books /\ ~books[book_id].is_borrowed
    THEN Effect(users, Delete(books, book_id), sess, Ok)
    ELSE Refuse(NotFound)

do_delete_book(s, book_id) ==
    IF ~login_required(s)
    THEN Refuse(Unauthenticated)
    ELSE IF ~is_admin(current_user(s))
    THEN Refuse(Forbidden)
    ELSE IF book_id \in DOMAIN books
    THEN Effect(users, Delete(books, book_id), sess, Ok)
    ELSE Refuse(NotFound)

delete_book(s, book_id) ==
    /\ Request(s)
    /\ Apply(do_delete_book(s, book_id))

\* ---------------------------------------------------------------- admin: users
\* The flush of db.session.delete(user): the backref User.borrowed_books
\* has no delete cascade, so the unit of work sets book.borrowed_by to NULL
\* in every book of the collection and leaves is_borrowed as it is
Disassociate(bks, user_id) ==
    [b \in DOMAIN bks |->
        IF bks[b].borrowed_by = user_id
        THEN [bks[b] EXCEPT !.borrowed_by = NULL]
        ELSE bks[b]]

do_delete_user(s, user_id) ==
    IF ~login_required(s)
    THEN Refuse(Unauthenticated)
    ELSE IF ~is_admin(current_user(s))
    THEN Refuse(Forbidden)
    ELSE IF user_id \in DOMAIN users
    THEN Effect(Delete(users, user_id), Disassociate(books, user_id), sess, Ok)
    ELSE Refuse(NotFound)

delete_user(s, user_id) ==
    /\ Request(s)
    /\ Apply(do_delete_user(s, user_id))

\* ---------------------------------------------------------------- one request at a time
Next ==
    \/ \E up \in Credentials, c \in Passwords, a \in BOOLEAN :
          register(up[1], up[2], c, a)
    \/ \E s \in Sessions :
        \/ \E u \in Usernames, p \in Passwords : login(s, u, p)
        \/ logout(s)
        \/ index(s)
        \/ user_page(s)
        \/ manage_users(s)
        \/ \E b \in BookIds : borrow_book(s, b)
        \/ \E b \in BookIds : return_book(s, b)
        \/ \E t \in Titles, a \in Authors, d \in PublishDates : add_book(s, t, a, d)
        \/ \E b \in BookIds : delete_book(s, b)
        \/ \E u \in UserIds : delete_user(s, u)

Spec == Init /\ [][Next]_vars

\* ---------------------------------------------------------------- threaded server
\* A view function that passes its check holds the row it read until
\* db.session.commit() writes it: requests of other sessions run in between.
Pending(op, book_id, uid) ==
    [pc |-> "commit", op |-> op, book_id |-> book_id, uid |-> uid]

Response(op, book_id, uid, checked, result) ==
    [pc |-> "done", op |-> op, book_id |-> book_id, uid |-> uid,
     checked |-> checked, result |-> result]

\* login_required, Book.query.get and the if of borrow_book
borrow_book_query(s, book_id) ==
    /\ inflight[s].pc # "commit"
    /\ UNCHANGED <<users, books, sess>>
    /\ IF ~login_required(s)
       THEN /\ inflight' = [inflight EXCEPT ![s] =
                    Response("borrow", book_id, NULL, FALSE, Unauthenticated)]
            /\ last' = Unauthenticated
       ELSE IF BorrowCheck(books, book_id)
       THEN /\ inflight' = [inflight EXCEPT ![s] =
                    Pending("borrow", book_id, current_user(s))]
            /\ UNCHANGED last
       ELSE /\ inflight' = [inflight EXCEPT ![s] =
                    Response("borrow", book_id, current_user(s), FALSE,
                             AlreadyBorrowedOrMissing)]
            /\ last' = AlreadyBorrowedOrMissing

\* the two assignments and db.session.commit() of borrow_book: an UPDATE of
\* the row by primary key, StaleDataError when the row is gone
borrow_book_commit(s) ==
    /\ inflight[s].pc = "commit"
    /\ inflight[s].op = "borrow"
    /\ UNCHANGED <<users, sess>>
    /\ LET r == inflight[s] IN
       IF r.book_id \in DOMAIN books
       THEN /\ books' = BorrowWrite(books, r.book_id, r.uid)
            /\ inflight' = [inflight EXCEPT ![s] =
                    Response("borrow", r.book_id, r.uid, TRUE, Ok)]
            /\ last' = Ok
       ELSE /\ UNCHANGED books
            /\ inflight' = [inflight EXCEPT ![s] =
                    Response("borrow", r.book_id, r.uid, TRUE, Fault)]
            /\ last' = Fault

\* login_required, Book.query.get and the if of return_book
return_book_query(s, book_id) ==
    /\ inflight[s].pc # "commit"
    /\ UNCHANGED <<users, books, sess>>
    /\ IF ~login_required(s)
       THEN /\ inflight' = [inflight EXCEPT ![s] =
                    Response("return", book_id, NULL, FALSE, Unauthenticated)]
            /\ last' = Unauthenticated
       ELSE IF ReturnCheck(books, book_id, current_user(s))
       THEN /\ inflight' = [inflight EXCEPT ![s] =
                    Pending("return", book_id, current_user(s))]
            /\ UNCHANGED last
       ELSE /\ inflight' = [inflight EXCEPT ![s] =
                    Response("return", book_id, current_user(s), FALSE, ReturnDenied)]
            /\ last' = ReturnDenied

\* the two assignments and db.session.commit() of return_book
return_book_commit(s) ==
    /\ inflight[s].pc = "commit"
    /\ inflight[s].op = "return"
    /\ UNCHANGED <<users, sess>>
    /\ LET r == inflight[s] IN
       IF r.book_id \in DOMAIN books
       THEN /\ books' = ReturnWrite(books, r.book_id)
            /\ inflight' = [inflight EXCEPT ![s] =
                    Response("return", r.book_id, r.uid, TRUE, Ok)]
            /\ last' = Ok
       ELSE /\ UNCHANGED books
            /\ inflight' = [inflight EXCEPT ![s] =
                    Response("return", r.book_id, r.uid, TRUE, Fault)]
            /\ last' = Fault

\* a database that two registrations and the admin's add_book requests
\* have filled: alice (admin) and bob, every book Available
ConcInit ==
    /\ users = Insert(Insert(<<>>, NewUser("alice", "pw1", TRUE)),
                      NewUser("bob", "pw2", FALSE))
    /\ books = [b \in BookIds |-> NewBook("Dune", "Herbert", "1965")]
    /\ sess = [s \in Sessions |-> None]
    /\ inflight = [s \in Sessions |-> Idle]
    /\ last = "none"

ConcNext ==
    \E s \in Sessions :
        \/ \E u \in Usernames, p \in Passwords : login(s, u, p)
        \/ logout(s)
        \/ \E b \in BookIds : borrow_book_query(s, b)
        \/ borrow_book_commit(s)
        \/ \E b \in BookIds : return_book_query(s, b)
        \/ return_book_commit(s)
        \/ \E b \in BookIds : delete_book(s, b)
        \/ \E u \in UserIds : delete_user(s, u)

SpecConc == ConcInit /\ [][ConcNext]_vars

\* ---------------------------------------------------------------- session history
\* One request at a time, with the record of a session kept across its
\* requests: the user row its last successful login found, or that its last
\* login or logout request was a logout.
LoggedIn(uid, row) == [pc |-> "done", op |-> "login", uid |-> uid, row |-> row]

LoggedOut == [pc |-> "done", op |-> "logout"]

login_recorded(s, username, password) ==
    LET e == do_login(s, username, password)
        user == find_by_username(username) IN
    /\ Apply(e)
    /\ inflight' = IF e.result = Ok
                   THEN [inflight EXCEPT ![s] = LoggedIn(user, users[user])]
                   ELSE inflight

logout_recorded(s) ==
    /\ Apply(do_logout(s))
    /\ inflight' = [inflight EXCEPT ![s] = LoggedOut]

SessNext ==
    \/ \E up \in Credentials, c \in Passwords, a \in BOOLEAN :
          register(up[1], up[2], c, a)
    \/ \E s \in Sessions :
        \/ \E u \in Usernames, p \in Passwords : login_recorded(s, u, p)
        \/ logout_recorded(s)
        \/ UNCHANGED inflight /\ Apply(do_index(s))
        \/ UNCHANGED inflight /\ Apply(do_user_page(s))
        \/ UNCHANGED inflight /\ Apply(do_manage_users(s))
        \/ \E b \in BookIds : UNCHANGED inflight /\ Apply(do_borrow_book(s, b))
        \/ \E b \in BookIds : UNCHANGED inflight /\ Apply(do_return_book(s, b))
        \/ \E t \in Titles, a \in Authors, d \in PublishDates :
              LET e == do_add_book(s, t, a, d) IN
              /\ DOMAIN e.books \subseteq BookIds
              /\ UNCHANGED inflight
              /\ Apply(e)
        \/ \E b \in BookIds : UNCHANGED inflight /\ Apply(do_delete_book(s, b))
        \/ \E u \in UserIds : UNCHANGED inflight /\ Apply(do_delete_user(s, u))

SpecSess == Init /\ [][SessNext]_vars

\* ================================================================ properties
Available(book) == ~book.is_borrowed /\ book.borrowed_by = NULL

BorrowedBy(book, uid) == book.is_borrowed /\ book.borrowed_by = uid

\* the session is Authenticated(uid): it holds the id of an existing user
Authenticated(s, uid) == uid \in DOMAIN users /\ sess[s] = Str[uid]

Anonymous(s) == sess[s] = None

\* C1: in every reachable state every existing book has is_borrowed true
\* exactly when borrowed_by is the id of an existing user, and borrowed_by
\* null when is_borrowed is false.
C1_LoanPairing ==
    \A b \in DOMAIN books :
        /\ books[b].is_borrowed <=> books[b].borrowed_by \in DOMAIN users
        /\ ~books[b].is_borrowed => books[b].borrowed_by = NULL

\* C2: of two borrow requests by two different users that both pass their
\* read-check on the same Available book before either commits, exactly one
\* reports success and the other reports AlreadyBorrowedOrMissing.
C2_ExactlyOneBorrowSucceeds ==
    \A s, t \in Sessions :
        LET q == inflight[s]
            r == inflight[t] IN
        ( /\ s # t
          /\ q.pc = "done" /\ r.pc = "done"
          /\ q.op = "borrow" /\ r.op = "borrow"
          /\ q.book_id = r.book_id
          /\ q.uid # r.uid
          /\ q.checked /\ r.checked )
        => \/ q.result = Ok /\ r.result = AlreadyBorrowedOrMissing
           \/ r.result = Ok /\ q.result = AlreadyBorrowedOrMissing

\* C3: a borrow by authenticated user U of an existing Available book moves
\* exactly that book to Borrowed(by: U); a borrow of a Borrowed or missing
\* book fails and leaves the catalog and the user store unchanged.
C3_Borrow ==
    \A s \in Sessions, b \in BookIds, uid \in UserIds :
        Authenticated(s, uid) =>
            LET e == do_borrow_book(s, b) IN
            IF b \in DOMAIN books /\ Available(books[b])
            THEN /\ e.result = Ok
                 /\ e.users = users
                 /\ DOMAIN e.books = DOMAIN books
                 /\ BorrowedBy(e.books[b], uid)
                 /\ \A c \in DOMAIN books \ {b} : e.books[c] = books[c]
                 /\ e.books[b].title = books[b].title
                 /\ e.books[b].author = books[b].author
                 /\ e.books[b].publish_date = books[b].publish_date
            ELSE /\ e.result = AlreadyBorrowedOrMissing
                 /\ e.users = users
                 /\ e.books = books

C3_Witness ==
    /\ last = AlreadyBorrowedOrMissing
    /\ \E b \in DOMAIN books, u \in DOMAIN users : BorrowedBy(books[b], u)
    /\ \E c \in DOMAIN books : Available(books[c])

\* C4: a return succeeds only for the current holder of an existing book and
\* then makes the book Available; by anyone else (an admin included), or on
\* a book that is not borrowed or missing, it fails with ReturnDenied and
\* changes nothing.
C4_Return ==
    \A s \in Sessions, b \in BookIds, uid \in UserIds :
        Authenticated(s, uid) =>
            LET e == do_return_book(s, b) IN
            IF b \in DOMAIN books /\ BorrowedBy(books[b], uid)
            THEN /\ e.result = Ok
                 /\ e.users = users
                 /\ e.sess = sess
                 /\ DOMAIN e.books = DOMAIN books
                 /\ Available(e.books[b])
                 /\ \A c \in DOMAIN books \ {b} : e.books[c] = books[c]
            ELSE e = Refuse(ReturnDenied)

C4_Witness ==
    /\ last = ReturnDenied
    /\ \E s \in Sessions, a, u \in DOMAIN users, b \in DOMAIN books :
          /\ a # u
          /\ Authenticated(s, a)
          /\ users[a].is_admin
          /\ BorrowedBy(books[b], u)

\* C5: for an authenticated user whose is_admin flag is false, add_book,
\* delete_book, manage_users and delete_user fail with Forbidden, whatever
\* the arguments, and leave both stores unchanged.
C5_AdminOnly ==
    \A s \in Sessions, uid \in UserIds :
        (Authenticated(s, uid) /\ ~users[uid].is_admin) =>
            /\ \A t \in Titles, a \in Authors, d \in PublishDates :
                  do_add_book(s, t, a, d) = Refuse(Forbidden)
            /\ \A b \in BookIds : do_delete_book(s, b) = Refuse(Forbidden)
            /\ do_manage_users(s) = Refuse(Forbidden)
            /\ \A u \in UserIds : do_delete_user(s, u) = Refuse(Forbidden)

C5_Witness ==
    /\ last = Forbidden
    /\ books # <<>>
    /\ \E s \in Sessions, uid \in DOMAIN users :
          Authenticated(s, uid) /\ ~users[uid].is_admin

\* C6: in an Anonymous session every operation other than register and
\* login fails with Unauthenticated and changes neither store.
C6_LoginRequired ==
    \A s \in Sessions :
        Anonymous(s) =>
            /\ do_index(s) = Refuse(Unauthenticated)
            /\ do_logout(s) = Refuse(Unauthenticated)
            /\ do_user_page(s) = Refuse(Unauthenticated)
            /\ do_manage_users(s) = Refuse(Unauthenticated)
            /\ \A b \in BookIds :
                  /\ do_borrow_book(s, b) = Refuse(Unauthenticated)
                  /\ do_return_book(s, b) = Refuse(Unauthenticated)
                  /\ do_delete_book(s, b) = Refuse(Unauthenticated)
            /\ \A t \in Titles, a \in Authors, d \in PublishDates :
                  do_add_book(s, t, a, d) = Refuse(Unauthenticated)
            /\ \A u \in UserIds : do_delete_user(s, u) = Refuse(Unauthenticated)

C6_Witness ==
    /\ last = Unauthenticated
    /\ \A s \in Sessions : Anonymous(s)
    /\ users # <<>>
    /\ \E b \in DOMAIN books : Available(books[b])

\* C7: a registration whose password differs from confirm_password fails
\* with PasswordMismatch and leaves the user store as it was, for every
\* username and admin flag.
C7_PasswordMismatch ==
    \A u \in Usernames, p \in Passwords, c \in Passwords, a \in BOOLEAN :
        p # c =>
            LET e == do_register(u, p, c, a) IN
            /\ e.result = PasswordMismatch
            /\ e.users = users

C7_Witness ==
    /\ last = PasswordMismatch
    /\ Cardinality(DOMAIN users) = 1

\* C8: a registration with matching passwords and a username that is taken
\* creates no user and ends in a notification and a redirect, never in an
\* unhandled fault.
C8_DuplicateRecovered ==
    [][\A u \in Usernames, p \in Passwords, a \in BOOLEAN :
          ((\E i \in DOMAIN users : users[i].username = u) /\ register(u, p, p, a)) =>
             (users' = users /\ last' # Fault)]_vars

\* C9: no two existing users have the same username, and none the same id,
\* also after deletions and further registrations.
C9_UniqueUsers ==
    /\ \A i, j \in DOMAIN users : users[i].username = users[j].username => i = j
    /\ Cardinality(DOMAIN users) = Cardinality({users[i].username : i \in DOMAIN users})

C9_Witness ==
    /\ 1 \notin DOMAIN users
    /\ 2 \in DOMAIN users
    /\ last = Fault

\* C10: login makes the session Authenticated(u) exactly when an existing
\* user u has the username and the password matches u's stored credential;
\* otherwise it fails with InvalidCredentials and leaves the session as it
\* was. It changes no store and no other session.
C10_Login ==
    \A s \in Sessions, u \in Usernames, p \in Passwords :
        LET e == do_login(s, u, p) IN
        /\ e.users = users
        /\ e.books = books
        /\ \A t \in Sessions \ {s} : e.sess[t] = sess[t]
        /\ IF \E i \in DOMAIN users :
                 /\ users[i].username = u
                 /\ users[i].password_hash = generate_password_hash(p)
           THEN /\ e.result = Ok
                /\ \E i \in DOMAIN users :
                      /\ users[i].username = u
                      /\ e.sess[s] = Str[i]
           ELSE /\ e.result = InvalidCredentials
                /\ e.sess[s] = sess[s]

C10_Witness ==
    /\ last = InvalidCredentials
    /\ \E s \in Sessions, i, j \in DOMAIN users :
          /\ i # j
          /\ Authenticated(s, i)
          /\ users[i].password_hash # users[j].password_hash

\* the session resolves to no user row
ResolvesToNobody(ss, us, s) == \A i \in DOMAIN us : ss[s] # Str[i]

\* C11: after a logout request the session is Anonymous, whatever it was
\* before, and every later request of it other than login and register
\* fails with Unauthenticated until a successful login; logout changes no
\* other session and no store.
C11_LogoutStaysOut ==
    \A s \in Sessions :
        /\ LET e == do_logout(s) IN
           /\ e.users = users
           /\ e.books = books
           /\ \A t \in Sessions \ {s} : e.sess[t] = sess[t]
           /\ ResolvesToNobody(e.sess, e.users, s)
        /\ inflight[s] = LoggedOut =>
              /\ ResolvesToNobody(sess, users, s)
              /\ do_index(s).result = Unauthenticated
              /\ do_user_page(s).result = Unauthenticated
              /\ do_logout(s).result = Unauthenticated
              /\ \A b \in BookIds : do_borrow_book(s, b).result = Unauthenticated
              /\ \A b \in BookIds : do_return_book(s, b).result = Unauthenticated

\* whom the session acts as: the id of the user row its '_user_id' names,
\* NULL when it names none (Anonymous)
ActsAs(ss, us, s) ==
    IF \E i \in DOMAIN us : ss[s] = Str[i]
    THEN CHOOSE i \in DOMAIN us : ss[s] = Str[i]
    ELSE NULL

\* C12: a registration with matching passwords and a fresh username adds
\* exactly one user, with is_admin as requested, and leaves every existing
\* user, every book and every session's state (Anonymous or Authenticated)
\* as it was: registering logs nobody in.
C12_RegisterFrame ==
    [][\A u \in Usernames, p \in Passwords, a \in BOOLEAN :
          ((\A i \in DOMAIN users : users[i].username # u) /\ register(u, p, p, a)) =>
             /\ last' = Ok
             /\ books' = books
             /\ \A i \in DOMAIN users : i \in DOMAIN users' /\ users'[i] = users[i]
             /\ \E n \in DOMAIN users' \ DOMAIN users :
                   /\ DOMAIN users' = DOMAIN users \cup {n}
                   /\ users'[n].username = u
                   /\ users'[n].is_admin = a
             /\ \A s \in Sessions : ActsAs(sess', users', s) = ActsAs(sess, users, s)]_vars

\* C13: a delete_user by an admin removes the user row when it exists and
\* fails with NotFound, changing nothing, when it does not; when the deleted
\* user held loans, afterwards no book is left with is_borrowed true whose
\* holder is the deleted user or is missing.
C13_DeleteUser ==
    [][\A s \in Sessions, a \in DOMAIN users, u \in UserIds :
          (Authenticated(s, a) /\ users[a].is_admin /\ delete_user(s, u)) =>
             IF u \in DOMAIN users
             THEN /\ last' = Ok
                  /\ users' = [i \in DOMAIN users \ {u} |-> users[i]]
                  /\ DOMAIN books' = DOMAIN books
                  /\ \A b \in DOMAIN books :
                        /\ books[b].borrowed_by # u => books'[b] = books[b]
                        /\ books[b].borrowed_by = u =>
                              ~( /\ books'[b].is_borrowed
                                 /\ books'[b].borrowed_by \in {u, NULL} )
             ELSE /\ last' = NotFound
                  /\ users' = users
                  /\ books' = books]_vars

\* C14: a delete_book by an admin removes exactly that book, whether it is
\* Available or Borrowed, and leaves every other book, every user and every
\* session unchanged; afterwards no user's loan list contains it. On an
\* absent book id it fails with NotFound and changes nothing.
C14_DeleteBook ==
    \A s \in Sessions, a \in DOMAIN users, b \in BookIds :
        (Authenticated(s, a) /\ users[a].is_admin) =>
            LET e == do_delete_book(s, b) IN
            IF b \in DOMAIN books
            THEN /\ e.result = Ok
                 /\ e.users = users
                 /\ e.sess = sess
                 /\ DOMAIN e.books = DOMAIN books \ {b}
                 /\ \A c \in DOMAIN e.books : e.books[c] = books[c]
                 /\ \A uid \in DOMAIN e.users :
                       b \notin {c \in DOMAIN e.books : e.books[c].borrowed_by = uid}
            ELSE /\ e.result = NotFound
                 /\ e.users = users
                 /\ e.books = books
                 /\ e.sess = sess

\* a book was deleted while another one stays on loan
C14_Witness ==
    /\ last = Ok
    /\ \E s \in Sessions, a \in DOMAIN users :
          Authenticated(s, a) /\ users[a].is_admin
    /\ \E b \in BookIds \ DOMAIN books, c \in DOMAIN books, u \in DOMAIN users :
          b < c /\ BorrowedBy(books[c], u)

\* C15: in every reachable state the loan list shown to an existing user U
\* is exactly the set of existing books in state Borrowed(by: U): it
\* contains no Available book and omits no book that U holds.
C15_LoanList ==
    \A uid \in DOMAIN users :
        /\ borrowed_books(uid) =
              {b \in DOMAIN books : books[b].is_borrowed /\ books[b].borrowed_by = uid}
        /\ \A b \in borrowed_books(uid) : ~Available(books[b])
        /\ \A b \in DOMAIN books : BorrowedBy(books[b], uid) => b \in borrowed_books(uid)

\* a user holding one book is shown the page while another book is
\* Available and another user holds nothing
C15_Witness ==
    /\ last = Ok
    /\ \E s \in Sessions, u, v \in DOMAIN users, b, c \in DOMAIN books :
          /\ u # v
          /\ Authenticated(s, u)
          /\ BorrowedBy(books[b], u)
          /\ Available(books[c])

\* C16: no request changes the username or the is_admin flag of a user that
\* exists before and after it, and an id keeps naming the same row: between
\* its creation and its deletion a user row is never altered, and only
\* delete_user removes one.
C16_UserImmutable ==
    LET Kept(e) == \A i \in DOMAIN users \cap DOMAIN e.users :
                       /\ e.users[i].username = users[i].username
                       /\ e.users[i].is_admin = users[i].is_admin
        Stays(e) == DOMAIN users \subseteq DOMAIN e.users /\ Kept(e)
    IN
    /\ \A u \in Usernames, p, c \in Passwords, a \in BOOLEAN :
          Stays(do_register(u, p, c, a))
    /\ \A s \in Sessions :
          /\ \A u \in Usernames, p \in Passwords : Stays(do_login(s, u, p))
          /\ Stays(do_logout(s))
          /\ Stays(do_index(s))
          /\ Stays(do_user_page(s))
          /\ Stays(do_manage_users(s))
          /\ \A b \in BookIds :
                /\ Stays(do_borrow_book(s, b))
                /\ Stays(do_return_book(s, b))
                /\ Stays(do_delete_book(s, b))
          /\ \A t \in Titles, a \in Authors, d \in PublishDates :
                Stays(do_add_book(s, t, a, d))
          /\ \A u \in UserIds :
                LET e == do_delete_user(s, u) IN
                /\ Kept(e)
                /\ DOMAIN users \ {u} \subseteq DOMAIN e.users

\* a registration under a taken username was refused while an admin and a
\* plain user exist
C16_Witness ==
    /\ last = Fault
    /\ \E i, j \in DOMAIN users : users[i].is_admin /\ ~users[j].is_admin

\* C17: for an existing Available book and an authenticated user U, a borrow
\* by U succeeds and a return by U sent right after it succeeds too and
\* leaves the book store and the user store as they were before the borrow;
\* the book is Available again and any authenticated user can borrow it.
C17_BorrowReturnRoundTrip ==
    [][\A s \in Sessions, b \in DOMAIN books :
          ( /\ Available(books[b])
            /\ \E uid \in DOMAIN users : Authenticated(s, uid)
            /\ borrow_book(s, b) ) =>
             /\ last' = Ok
             /\ books' # books
             /\ LET e == (do_return_book(s, b))' IN
                /\ e.result = Ok
                /\ e.books = books
                /\ e.users = users
                /\ e.sess = sess
                /\ Available(e.books[b])
                /\ \A t \in Sessions :
                      (\E v \in DOMAIN e.users : e.sess[t] = Str[v]) =>
                          do_borrow_book(t, b).result = Ok]_vars

\* the state between the two requests: the borrower's session holds the
\* book, and a second user is logged in to borrow it afterwards
C17_Witness ==
    /\ last = Ok
    /\ \E s, t \in Sessions, u, v \in DOMAIN users, b \in DOMAIN books :
          /\ u # v
          /\ Authenticated(s, u)
          /\ Authenticated(t, v)
          /\ BorrowedBy(books[b], u)
          /\ do_return_book(s, b).result = Ok

\* C18: a book that is Borrowed(by: U) leaves that state only by U's own
\* return, which makes it Available, or by the deletion of the book; under
\* any interleaving no step changes its holder from U to another user, and
\* no borrow or return changes a row when the check it made before no
\* longer holds. (Stated for holders that exist after the step; the
\* deletion of the holder is C13.)
C18_HolderStable ==
    [][/\ \A b \in DOMAIN books, u \in DOMAIN users \cap DOMAIN users' :
             BorrowedBy(books[b], u) =>
                \/ \E s \in Sessions : delete_book(s, b)
                \/ /\ b \in DOMAIN books'
                   /\ BorrowedBy(books'[b], u)
                \/ /\ b \in DOMAIN books'
                   /\ Available(books'[b])
                   /\ \E s \in Sessions :
                         /\ return_book_commit(s)
                         /\ inflight[s].book_id = b
                         /\ inflight[s].uid = u
       /\ \A s \in Sessions :
             /\ (borrow_book_commit(s) /\ books' # books) =>
                    /\ inflight[s].book_id \in DOMAIN books
                    /\ ~books[inflight[s].book_id].is_borrowed
             /\ (return_book_commit(s) /\ books' # books) =>
                    /\ inflight[s].book_id \in DOMAIN books
                    /\ books[inflight[s].book_id].borrowed_by = inflight[s].uid]_vars

\* C19: a session that logged in as user U acts on every later request,
\* until its logout or its next login, as U while U exists and as nobody
\* once U is deleted: the id it holds never resolves to another user row,
\* also when a user is registered after U's deletion.
C19_SessionKeepsIdentity ==
    \A s \in Sessions :
        (inflight[s].pc = "done" /\ inflight[s].op = "login") =>
            /\ sess[s] = Str[inflight[s].uid]
            /\ \A i \in DOMAIN users :
                  sess[s] = Str[i] => users[i] = inflight[s].row

====
